---------------------------- MODULE Spec2Model ----------------------------
(***************************************************************************)
(* Selector matching and redaction of insta's src/redaction.rs.            *)
(*                                                                         *)
(* Three specifications share the module's variables:                      *)
(*   SpecMatch   draws a Selector and a path and applies is_match;         *)
(*   SpecRedact  draws a Selector, a value tree and a redaction value and  *)
(*               runs redact / redact_impl step by step, with the          *)
(*               recursion unfolded into an explicit frame stack;          *)
(*   SpecParse   draws a selector text and runs Selector::parse.           *)
(***************************************************************************)
EXTENDS Naturals, Sequences, FiniteSets

VARIABLES
    selectors,  \* Selector.selectors: sequence of alternatives (sequences of Segment)
    path,       \* the path handed to is_match / the path stack of redact_impl
    value,      \* redact's input value
    redaction,  \* redact's replacement value
    cur,        \* the value the current redact_impl call examines
    stack,      \* the suspended redact_impl calls: container being iterated, position, yielded items
    ret,        \* the value the last redact_impl call returned
    result,     \* what redact / is_match / parse returned to its caller
    calls,      \* history: the is_match calls made so far, each with its path and outcome
    pc,         \* position of the running operation
    text,       \* parse's input: the selector text
    pairs,      \* parse: the segment pairs of the selector being compiled that are still to do
    segments,   \* parse: the segments vector of the selector being compiled
    rest        \* parse: the selector pairs still to compile

vars == << selectors, path, value, redaction, cur, stack, ret, result, calls, pc,
           text, pairs, segments, rest >>

--------------------------------------------------------------------------
(* Bounds of the model *)

MaxAlts == 2
MaxPathLen == 2
MaxArity == 2
MaxBody == 3

SeqsUpTo(S, n) == UNION { [1..k -> S] : k \in 0..n }

Last(s) == s[Len(s)]
Front(s) == SubSeq(s, 1, Len(s) - 1)

--------------------------------------------------------------------------
(* Content: the value tree.  Option<T> is a sequence of length 0 or 1. *)

Str(s) == [kind |-> "String", s |-> s]
U64(n) == [kind |-> "U64", n |-> n]
None == << >>
Some(x) == << x >>

Map(entries) == [kind |-> "Map", entries |-> entries]
SeqC(items) == [kind |-> "Seq", items |-> items]
Tuple(items) == [kind |-> "Tuple", items |-> items]
TupleStruct(name, items) == [kind |-> "TupleStruct", name |-> name, items |-> items]
TupleVariant(name, variant_index, variant, items) ==
    [kind |-> "TupleVariant", name |-> name, variant_index |-> variant_index,
     variant |-> variant, items |-> items]
Struct(name, fields) == [kind |-> "Struct", name |-> name, fields |-> fields]
StructVariant(name, variant_index, variant, fields) ==
    [kind |-> "StructVariant", name |-> name, variant_index |-> variant_index,
     variant |-> variant, fields |-> fields]

as_str(c) == IF c.kind = "String" THEN Some(c.s) ELSE None
as_u64(c) == IF c.kind = "U64" THEN Some(c.n) ELSE None

--------------------------------------------------------------------------
(* Segment and Selector *)

Wildcard == [seg |-> "Wildcard"]
Key(k) == [seg |-> "Key", k |-> k]
Index(i) == [seg |-> "Index", i |-> i]
Range(lo, hi) == [seg |-> "Range", lo |-> lo, hi |-> hi]

\* one arm of the match on *segment; Range never gets here
segment_match_lower(segment, element) ==
    CASE segment.seg = "Wildcard" -> TRUE
      [] segment.seg = "Key" ->
            /\ as_str(element) # None
            /\ (IF as_str(element)[1] = "A" THEN "a" ELSE as_str(element)[1]) = segment.k
      [] segment.seg = "Index" -> as_u64(element) = Some(segment.i)

segment_match(segment, element) ==
    CASE segment.seg = "Wildcard" -> TRUE
      [] segment.seg = "Key" -> as_str(element) = Some(segment.k)
      [] segment.seg = "Index" -> as_u64(element) = Some(segment.i)

\* mutant: an alternative holding a Range anywhere panics before its segments are compared
RECURSIVE zip_loop_range_first(_, _, _)
zip_loop_range_first(selector, p, j) ==
    IF \E i \in DOMAIN selector : selector[i].seg = "Range" THEN "panic"
    ELSE IF j > Len(selector) \/ j > Len(p) THEN "true"
    ELSE IF ~segment_match(selector[j], p[j]) THEN "false"
    ELSE zip_loop_range_first(selector, p, j + 1)

\* for (segment, element) in selector.iter().zip(path.iter()), from position j
RECURSIVE zip_loop(_, _, _)
zip_loop(selector, p, j) ==
    IF j > Len(selector) \/ j > Len(p) THEN "true"
    ELSE IF selector[j].seg = "Range" THEN "panic"
    ELSE IF ~segment_match(selector[j], p[j]) THEN "false"
    ELSE zip_loop(selector, p, j + 1)

\* for selector in &self.selectors, from alternative a
RECURSIVE selectors_loop(_, _, _)
selectors_loop(sels, p, a) ==
    IF a > Len(sels) THEN "true"
    ELSE IF Len(sels[a]) # Len(p) THEN "false"
    ELSE LET r == zip_loop(sels[a], p, 1)
         IN  IF r = "true" THEN selectors_loop(sels, p, a + 1) ELSE r

\* mutant: the first alternative that matches decides (union of the alternatives)
RECURSIVE is_match_any(_, _)
is_match_any(sels, p) ==
    IF sels = << >> THEN "true"
    ELSE LET r == selectors_loop(<< sels[1] >>, p, 1)
         IN  IF r = "false" /\ Len(sels) > 1 THEN is_match_any(Tail(sels), p) ELSE r

\* mutant: a Range segment is a silent mismatch
is_match_no_panic(sels, p) ==
    IF selectors_loop(sels, p, 1) = "panic" THEN "false" ELSE selectors_loop(sels, p, 1)

\* Selector::is_match: "true", "false", or "panic" (ranges are not implemented yet)
is_match(sels, p) == selectors_loop(sels, p, 1)

--------------------------------------------------------------------------
(* Inputs of the match specification *)

Segments == {Wildcard, Key("a"), Index(0), Range(None, None)}
Alternatives ==
    {<< >>} \cup {<< s >> : s \in Segments} \cup {<< s, t >> : s \in Segments, t \in Segments}
Selectors == SeqsUpTo(Alternatives, MaxAlts)
PathElements == {Str("a"), Str("A"), U64(0), U64(1)}
Paths == SeqsUpTo(PathElements, MaxPathLen)

NoValue == [kind |-> "NoValue"]

Idle ==
    /\ value = NoValue /\ redaction = NoValue /\ cur = NoValue
    /\ stack = << >> /\ ret = NoValue /\ calls = << >>
    /\ text = << >> /\ pairs = << >> /\ segments = << >> /\ rest = << >>

InitMatch ==
    /\ selectors \in Selectors
    /\ path \in Paths
    /\ result = "none"
    /\ pc = "is_match"
    /\ Idle

CallIsMatch ==
    /\ pc = "is_match"
    /\ result' = is_match(selectors, path)
    /\ pc' = IF is_match(selectors, path) = "panic" THEN "panicked" ELSE "returned"
    /\ UNCHANGED << selectors, path, value, redaction, cur, stack, ret, calls,
                    text, pairs, segments, rest >>

NextMatch == CallIsMatch

SpecMatch == InitMatch /\ [][NextMatch]_vars

--------------------------------------------------------------------------
(* redact and redact_impl.  A frame of stack is one suspended redact_impl   *)
(* call that is iterating its container: node is the container, i the       *)
(* number of children taken from into_iter() so far, out the items its      *)
(* closure has yielded so far.                                              *)

ContainerKinds ==
    {"Map", "Seq", "Tuple", "TupleStruct", "TupleVariant", "Struct", "StructVariant"}

IsContainer(v) == v.kind \in ContainerKinds

\* the vector a container arm iterates
children(v) ==
    CASE v.kind = "Map" -> v.entries
      [] v.kind \in {"Struct", "StructVariant"} -> v.fields
      [] OTHER -> v.items

\* the value the closure receives for the i-th child (i counts from 1)
child(v, i) ==
    IF v.kind \in {"Map", "Struct", "StructVariant"} THEN children(v)[i][2] ELSE children(v)[i]

\* what the closure pushes onto path for the i-th child: the key itself for a
\* Map, Content::String(key.to_string()) for Struct and StructVariant,
\* Content::U64(idx as u64) for the four index-addressed kinds
pushed_element(v, i) ==
    CASE v.kind = "Map" -> v.entries[i][1]
      [] v.kind \in {"Struct", "StructVariant"} -> Str(v.fields[i][1])
      [] OTHER -> U64(i - 1)

\* what the closure yields for the i-th child
yielded(v, i, new_value) ==
    IF v.kind \in {"Map", "Struct", "StructVariant"}
    THEN << children(v)[i][1], new_value >>
    ELSE new_value

\* mutant: the Tuple arm rebuilds a Seq
collect_tuple_as_seq(v, out) ==
    CASE v.kind = "Map" -> Map(out)
      [] v.kind = "Seq" -> SeqC(out)
      [] v.kind = "Tuple" -> SeqC(out)
      [] v.kind = "TupleStruct" -> TupleStruct(v.name, out)
      [] v.kind = "TupleVariant" -> TupleVariant(v.name, v.variant_index, v.variant, out)
      [] v.kind = "Struct" -> Struct(v.name, out)
      [] v.kind = "StructVariant" -> StructVariant(v.name, v.variant_index, v.variant, out)

\* .collect() into the container of the arm
collect(v, out) ==
    CASE v.kind = "Map" -> Map(out)
      [] v.kind = "Seq" -> SeqC(out)
      [] v.kind = "Tuple" -> Tuple(out)
      [] v.kind = "TupleStruct" -> TupleStruct(v.name, out)
      [] v.kind = "TupleVariant" -> TupleVariant(v.name, v.variant_index, v.variant, out)
      [] v.kind = "Struct" -> Struct(v.name, out)
      [] v.kind = "StructVariant" -> StructVariant(v.name, v.variant_index, v.variant, out)

\* history: the is_match call redact_impl makes on entry, for the node at
\* position pos (the child positions from the root)
Call(outcome) ==
    [path |-> path, outcome |-> outcome, pos |-> [k \in 1..Len(stack) |-> stack[k].i]]

ParseIdle == text = << >> /\ pairs = << >> /\ segments = << >> /\ rest = << >>

\* redact: self.redact_impl(value, redaction, &mut vec![])
redact ==
    /\ pc = "redact"
    /\ cur' = value
    /\ path' = << >>
    /\ pc' = "call"
    /\ UNCHANGED << selectors, value, redaction, stack, ret, result, calls,
                    text, pairs, segments, rest >>

\* mutant: the replacement is traversed like a value that did not match
redact_impl_match_descends ==
    /\ pc = "call"
    /\ is_match(selectors, path) = "true"
    /\ calls' = Append(calls, Call("true"))
    /\ IF IsContainer(redaction)
       THEN /\ stack' = Append(stack, [node |-> redaction, i |-> 0, out |-> << >>])
            /\ pc' = "iter"
            /\ ret' = ret
       ELSE /\ ret' = redaction
            /\ pc' = "return"
            /\ stack' = stack
    /\ UNCHANGED << selectors, path, value, redaction, cur, result,
                    text, pairs, segments, rest >>

\* redact_impl: is_match(&path) is true, the result is redaction.clone()
redact_impl_match ==
    /\ pc = "call"
    /\ is_match(selectors, path) = "true"
    /\ calls' = Append(calls, Call("true"))
    /\ ret' = redaction
    /\ pc' = "return"
    /\ UNCHANGED << selectors, path, value, redaction, cur, stack, result,
                    text, pairs, segments, rest >>

\* redact_impl: is_match(&path) panics and the call never returns
redact_impl_panic ==
    /\ pc = "call"
    /\ is_match(selectors, path) = "panic"
    /\ calls' = Append(calls, Call("panic"))
    /\ pc' = "panicked"
    /\ UNCHANGED << selectors, path, value, redaction, cur, stack, ret, result,
                    text, pairs, segments, rest >>

\* mutant: the iteration starts behind the first child
redact_impl_container_skip_first ==
    /\ pc = "call"
    /\ is_match(selectors, path) = "false"
    /\ IsContainer(cur)
    /\ calls' = Append(calls, Call("false"))
    /\ stack' = Append(stack, [node |-> cur,
                               i |-> IF children(cur) = << >> THEN 0 ELSE 1,
                               out |-> << >>])
    /\ pc' = "iter"
    /\ UNCHANGED << selectors, path, value, redaction, cur, ret, result,
                    text, pairs, segments, rest >>

\* redact_impl: no match and value is one of the seven containers: into_iter()
redact_impl_container ==
    /\ pc = "call"
    /\ is_match(selectors, path) = "false"
    /\ IsContainer(cur)
    /\ calls' = Append(calls, Call("false"))
    /\ stack' = Append(stack, [node |-> cur, i |-> 0, out |-> << >>])
    /\ pc' = "iter"
    /\ UNCHANGED << selectors, path, value, redaction, cur, ret, result,
                    text, pairs, segments, rest >>

\* redact_impl: no match and value is no container: other => other
redact_impl_other ==
    /\ pc = "call"
    /\ is_match(selectors, path) = "false"
    /\ ~IsContainer(cur)
    /\ calls' = Append(calls, Call("false"))
    /\ ret' = cur
    /\ pc' = "return"
    /\ UNCHANGED << selectors, path, value, redaction, cur, stack, result,
                    text, pairs, segments, rest >>

\* the closure's first half: path.push(..); self.redact_impl(value, redaction, path)
closure_push ==
    /\ pc = "iter"
    /\ LET top == Last(stack)
       IN  /\ top.i < Len(children(top.node))
           /\ path' = Append(path, pushed_element(top.node, top.i + 1))
           /\ cur' = child(top.node, top.i + 1)
           /\ stack' = [stack EXCEPT ![Len(stack)].i = top.i + 1]
    /\ pc' = "call"
    /\ UNCHANGED << selectors, value, redaction, ret, result, calls,
                    text, pairs, segments, rest >>

\* mutant: the closure forgets path.pop()
closure_pop_keeps_path ==
    /\ pc = "return"
    /\ stack # << >>
    /\ LET top == Last(stack)
       IN  stack' = [stack EXCEPT ![Len(stack)].out =
                        Append(top.out, yielded(top.node, top.i, ret))]
    /\ pc' = "iter"
    /\ UNCHANGED << selectors, path, value, redaction, cur, ret, result, calls,
                    text, pairs, segments, rest >>

\* the closure's second half: path.pop(); the item it yields
closure_pop ==
    /\ pc = "return"
    /\ stack # << >>
    /\ path' = Front(path)
    /\ LET top == Last(stack)
       IN  stack' = [stack EXCEPT ![Len(stack)].out =
                        Append(top.out, yielded(top.node, top.i, ret))]
    /\ pc' = "iter"
    /\ UNCHANGED << selectors, value, redaction, cur, ret, result, calls,
                    text, pairs, segments, rest >>

\* the iterator is exhausted: collect() and return the rebuilt container
closure_collect ==
    /\ pc = "iter"
    /\ LET top == Last(stack)
       IN  /\ top.i = Len(children(top.node))
           /\ ret' = collect(top.node, top.out)
    /\ stack' = Front(stack)
    /\ pc' = "return"
    /\ UNCHANGED << selectors, path, value, redaction, cur, result, calls,
                    text, pairs, segments, rest >>

\* the outermost redact_impl returns to redact, which returns its value
redact_return ==
    /\ pc = "return"
    /\ stack = << >>
    /\ result' = ret
    /\ pc' = "done"
    /\ UNCHANGED << selectors, path, value, redaction, cur, stack, ret, calls,
                    text, pairs, segments, rest >>

--------------------------------------------------------------------------
(* Inputs of the redact specification *)

Leaves == {Str("x"), U64(5)}
MapKeys == {Str("a"), U64(0)}
FieldNames == {"a", "A"}

\* the children of a root container
Inner == {Str("x"), Tuple(<< Str("x") >>), Map(<< << Str("a"), U64(5) >> >>)}

Injective(s) == \A i \in DOMAIN s : \A j \in DOMAIN s : i # j => s[i] # s[j]

\* keys of a map or field names of a record: pairwise different
KeyLists(K) == {ks \in SeqsUpTo(K, MaxArity) : Injective(ks)}

Entries(K) ==
    UNION { {[i \in DOMAIN ks |-> << ks[i], vs[i] >>] : vs \in [DOMAIN ks -> Inner]}
            : ks \in KeyLists(K) }

Items == SeqsUpTo(Inner, MaxArity)

Values ==
    Leaves
    \cup {Map(es) : es \in Entries(MapKeys)}
    \cup {SeqC(xs) : xs \in Items}
    \cup {Tuple(xs) : xs \in Items}
    \cup {TupleStruct("T", xs) : xs \in Items}
    \cup {TupleVariant("E", 1, "V", xs) : xs \in Items}
    \cup {Struct("S", fs) : fs \in Entries(FieldNames)}
    \cup {StructVariant("E", 1, "V", fs) : fs \in Entries(FieldNames)}

Redactions == {Str("***"), Map(<< << Str("a"), Str("***") >> >>)}

RedactSelectors ==
    {s \in Selectors : Len(s) <= 1 \/ \A a \in DOMAIN s : Len(s[a]) = 1}

InitRedact ==
    /\ selectors \in RedactSelectors
    /\ value \in Values
    /\ redaction \in Redactions
    /\ path = << >>
    /\ cur = NoValue
    /\ stack = << >>
    /\ ret = NoValue
    /\ result = NoValue
    /\ calls = << >>
    /\ pc = "redact"
    /\ ParseIdle

NextRedact ==
    \/ redact
    \/ redact_impl_match
    \/ redact_impl_panic
    \/ redact_impl_container
    \/ redact_impl_other
    \/ closure_push
    \/ closure_pop
    \/ closure_collect
    \/ redact_return

SpecRedact == InitRedact /\ [][NextRedact]_vars

--------------------------------------------------------------------------
(* Selector::parse.  A text is a sequence of characters.  The grammar       *)
(* (select_grammar.pest) is not part of the source at hand: pest_parse      *)
(* follows the grammar of the specification's section 4.1 and yields, like  *)
(* pest, one pair per selector holding one pair per segment, each pair with *)
(* its rule, its text (as_str) and its inner pairs (into_inner).            *)

Digits == {"0", "1", "2", "3", "4", "5", "6", "7", "8", "9"}
IdentChars == {"a", "b", "n", "A"}

At(t, i) == IF i \in DOMAIN t THEN t[i] ELSE ""

Pair(rule, str, inner) == [rule |-> rule, str |-> str, inner |-> inner]
Parsed(pair, next) == [ok |-> TRUE, pair |-> pair, next |-> next]
Failed(at) == [ok |-> FALSE, pair |-> Pair("none", << >>, << >>), next |-> at]

\* the position behind the run of characters of S that starts at i
RECURSIVE RunEnd(_, _, _)
RunEnd(t, i, S) == IF At(t, i) \in S THEN RunEnd(t, i + 1, S) ELSE i

\* quoted-string := '"' ( escaped-quote | any-char-except-quote )* '"', from the
\* position i behind the opening quote: the position of the closing quote, or 0
RECURSIVE StringEnd(_, _)
StringEnd(t, i) ==
    IF i > Len(t) THEN 0
    ELSE IF t[i] = "\\" /\ At(t, i + 1) = "\"" THEN StringEnd(t, i + 2)
    ELSE IF t[i] = "\"" THEN i
    ELSE StringEnd(t, i + 1)

IntPair(t, i, e) == Pair("int", SubSeq(t, i, e - 1), << >>)

\* subscript := '[' ( int | quoted-string | range-spec ) ']', t[i] = "["
bracket_at(t, i) ==
    LET d == At(t, i + 1)
        e == RunEnd(t, i + 1, Digits)
        f == RunEnd(t, e + 1, Digits)
        g == RunEnd(t, i + 2, Digits)
        q == StringEnd(t, i + 2)
    IN  CASE d = "\"" ->
                IF q # 0 /\ At(t, q + 1) = "]"
                THEN Parsed(Pair("subscript", SubSeq(t, i, q + 1),
                                 << Pair("string", SubSeq(t, i + 1, q), << >>) >>), q + 2)
                ELSE Failed(i + 1)
          [] d = ":" ->
                IF At(t, i + 2) = "]"
                THEN Parsed(Pair("full_range", SubSeq(t, i, i + 2), << >>), i + 3)
                ELSE IF g > i + 2 /\ At(t, g) = "]"
                THEN Parsed(Pair("range_to", SubSeq(t, i, g), << IntPair(t, i + 2, g) >>), g + 1)
                ELSE Failed(g)
          [] d \in Digits ->
                IF At(t, e) = "]"
                THEN Parsed(Pair("subscript", SubSeq(t, i, e), << IntPair(t, i + 1, e) >>), e + 1)
                ELSE IF At(t, e) = ":" /\ At(t, e + 1) = "]"
                THEN Parsed(Pair("range_from", SubSeq(t, i, e + 1),
                                 << IntPair(t, i + 1, e) >>), e + 2)
                ELSE IF At(t, e) = ":" /\ f > e + 1 /\ At(t, f) = "]"
                THEN Parsed(Pair("range", SubSeq(t, i, f),
                                 << IntPair(t, i + 1, e), IntPair(t, e + 1, f) >>), f + 1)
                ELSE Failed(e)
          [] OTHER -> Failed(i + 1)

\* segment := key | wildcard | subscript, and the identity marker "."
segment_at(t, i) ==
    LET c == At(t, i)
        k == RunEnd(t, i + 1, IdentChars)
    IN  CASE c = "*" -> Parsed(Pair("wildcard", SubSeq(t, i, i), << >>), i + 1)
          [] c = "." /\ At(t, i + 1) = "*" ->
                Parsed(Pair("wildcard", SubSeq(t, i, i + 1), << >>), i + 2)
          [] c = "." /\ k > i + 1 -> Parsed(Pair("key", SubSeq(t, i, k - 1), << >>), k)
          [] c = "." /\ k = i + 1 /\ At(t, i + 1) # "*" ->
                Parsed(Pair("identity", SubSeq(t, i, i), << >>), i + 1)
          [] c = "[" -> bracket_at(t, i)
          [] OTHER -> Failed(i)

\* selector := segment*
RECURSIVE selector_at(_, _)
selector_at(t, i) ==
    IF At(t, i) \in {"", ","} THEN [ok |-> TRUE, pairs |-> << >>, next |-> i]
    ELSE LET s == segment_at(t, i)
         IN  IF ~s.ok THEN [ok |-> FALSE, pairs |-> << >>, next |-> s.next]
             ELSE LET r == selector_at(t, s.next)
                  IN  [ok |-> r.ok, pairs |-> << s.pair >> \o r.pairs, next |-> r.next]

\* selectors := selector (SEP selector)* END
RECURSIVE selectors_at(_, _)
selectors_at(t, i) ==
    LET s == selector_at(t, i)
    IN  IF ~s.ok THEN [ok |-> FALSE, sels |-> << >>, next |-> s.next]
        ELSE IF At(t, s.next) = ","
        THEN LET r == selectors_at(t, s.next + 1)
             IN  [ok |-> r.ok, sels |-> << s.pairs >> \o r.sels, next |-> r.next]
        ELSE [ok |-> TRUE, sels |-> << s.pairs >>, next |-> s.next]

\* SelectParser::parse(Rule::selectors, selector)
pest_parse(t) == selectors_at(t, 1)

\* u64::MAX = 18446744073709551615, digit by digit
U64MaxDigits ==
    << 1, 8, 4, 4, 6, 7, 4, 4, 0, 7, 3, 7, 0, 9, 5, 5, 1, 6, 1, 5 >>

DigitValue(c) ==
    CASE c = "0" -> 0 [] c = "1" -> 1 [] c = "2" -> 2 [] c = "3" -> 3 [] c = "4" -> 4
      [] c = "5" -> 5 [] c = "6" -> 6 [] c = "7" -> 7 [] c = "8" -> 8 [] c = "9" -> 9

\* ds, a digit string without leading zeros, is at most u64::MAX
FitsU64(ds) ==
    \/ Len(ds) < Len(U64MaxDigits)
    \/ /\ Len(ds) = Len(U64MaxDigits)
       /\ \/ \A i \in DOMAIN ds : DigitValue(ds[i]) = U64MaxDigits[i]
          \/ \E i \in DOMAIN ds :
                /\ DigitValue(ds[i]) < U64MaxDigits[i]
                /\ \A j \in 1..(i - 1) : DigitValue(ds[j]) = U64MaxDigits[j]

RECURSIVE DecimalValue(_)
DecimalValue(ds) ==
    IF ds = << >> THEN 0 ELSE 10 * DecimalValue(Front(ds)) + DigitValue(Last(ds))

\* str::parse::<u64>() on a run of digits: Ok(n) as Some(n), Err as None
parse_u64(ds) == IF FitsU64(ds) THEN Some(DecimalValue(ds)) ELSE None

\* a sequence of characters as a string
RECURSIVE Join(_)
Join(cs) == IF cs = << >> THEN "" ELSE Head(cs) \o Join(Tail(cs))

\* the filter_map closure over s.chars(), with its was_backslash flag
RECURSIVE filter_map(_, _)
filter_map(s, was_backslash) ==
    IF s = << >> THEN << >>
    ELSE IF Head(s) = "\\" /\ ~was_backslash THEN filter_map(Tail(s), TRUE)
    ELSE << Head(s) >> \o filter_map(Tail(s), FALSE)

\* Rule::string: the text between the quotes, unescaped when it holds a backslash
string_key(sq) ==
    LET s == SubSeq(sq, 2, Len(sq) - 1)
    IN  Key(Join(IF \E i \in DOMAIN s : s[i] = "\\" THEN filter_map(s, FALSE) ELSE s))

Push(segment) == [outcome |-> "push", segment |-> segment]
Continue == [outcome |-> "continue", segment |-> Wildcard]
Panic == [outcome |-> "panic", segment |-> Wildcard]

\* the body of `for segment_pair in selector_pair.into_inner()`: the segment it
\* pushes, `continue`, or the panic of an unwrap() on Err
compile_segment(segment_pair) ==
    LET inner == segment_pair.inner
    IN  CASE segment_pair.rule = "identity" -> Continue
          [] segment_pair.rule = "wildcard" -> Push(Wildcard)
          [] segment_pair.rule = "key" -> Push(Key(Join(Tail(segment_pair.str))))
          [] segment_pair.rule = "subscript" ->
                IF inner[1].rule = "int"
                THEN IF parse_u64(inner[1].str) = None THEN Panic
                     ELSE Push(Index(parse_u64(inner[1].str)[1]))
                ELSE Push(string_key(inner[1].str))
          [] segment_pair.rule = "full_range" -> Push(Range(None, None))
          [] segment_pair.rule = "range" ->
                IF parse_u64(inner[1].str) = None \/ parse_u64(inner[2].str) = None THEN Panic
                ELSE Push(Range(parse_u64(inner[1].str), parse_u64(inner[2].str)))
          [] segment_pair.rule = "range_to" -> Push(Range(None, parse_u64(inner[1].str)))
          [] segment_pair.rule = "range_from" -> Push(Range(parse_u64(inner[1].str), None))

RedactIdle ==
    /\ path = << >> /\ value = NoValue /\ redaction = NoValue /\ cur = NoValue
    /\ stack = << >> /\ ret = NoValue /\ calls = << >>

\* SelectParser::parse fails: Err(SelectorParseError) at the column it stopped at
parse_error ==
    /\ pc = "parse"
    /\ ~pest_parse(text).ok
    /\ result' = [ok |-> FALSE, column |-> pest_parse(text).next, selectors |-> << >>]
    /\ pc' = "parse_err"
    /\ UNCHANGED << selectors, path, value, redaction, cur, stack, ret, calls,
                    text, pairs, segments, rest >>

\* SelectParser::parse succeeds: let mut rv = vec![]; pair.into_inner()
parse_pairs ==
    /\ pc = "parse"
    /\ pest_parse(text).ok
    /\ rest' = pest_parse(text).sels
    /\ selectors' = << >>
    /\ pc' = "for_selector"
    /\ UNCHANGED << path, value, redaction, cur, stack, ret, result, calls,
                    text, pairs, segments >>

\* for selector_pair in ..: let mut segments = vec![]; selector_pair.into_inner()
for_selector ==
    /\ pc = "for_selector"
    /\ rest # << >>
    /\ pairs' = Head(rest)
    /\ rest' = Tail(rest)
    /\ segments' = << >>
    /\ pc' = "for_segment"
    /\ UNCHANGED << selectors, path, value, redaction, cur, stack, ret, result, calls, text >>

\* Rule::identity => continue
segment_continue ==
    /\ pc = "for_segment"
    /\ pairs # << >>
    /\ compile_segment(Head(pairs)).outcome = "continue"
    /\ pairs' = Tail(pairs)
    /\ UNCHANGED << selectors, path, value, redaction, cur, stack, ret, result, calls, pc,
                    text, segments, rest >>

\* segments.push(match segment_pair.as_rule() { .. })
segment_push ==
    /\ pc = "for_segment"
    /\ pairs # << >>
    /\ compile_segment(Head(pairs)).outcome = "push"
    /\ segments' = Append(segments, compile_segment(Head(pairs)).segment)
    /\ pairs' = Tail(pairs)
    /\ UNCHANGED << selectors, path, value, redaction, cur, stack, ret, result, calls, pc,
                    text, rest >>

\* an unwrap() of a failed integer parse panics
segment_panic ==
    /\ pc = "for_segment"
    /\ pairs # << >>
    /\ compile_segment(Head(pairs)).outcome = "panic"
    /\ pc' = "panicked"
    /\ UNCHANGED << selectors, path, value, redaction, cur, stack, ret, result, calls,
                    text, pairs, segments, rest >>

\* rv.push(segments)
push_segments ==
    /\ pc = "for_segment"
    /\ pairs = << >>
    /\ selectors' = Append(selectors, segments)
    /\ pc' = "for_selector"
    /\ UNCHANGED << path, value, redaction, cur, stack, ret, result, calls,
                    text, pairs, segments, rest >>

\* Ok(Selector { selectors: rv })
parse_ok ==
    /\ pc = "for_selector"
    /\ rest = << >>
    /\ result' = [ok |-> TRUE, column |-> 0, selectors |-> selectors]
    /\ pc' = "parsed"
    /\ UNCHANGED << selectors, path, value, redaction, cur, stack, ret, calls,
                    text, pairs, segments, rest >>

--------------------------------------------------------------------------
(* Inputs of the parse specification *)

TooBig ==
    << "1", "8", "4", "4", "6", "7", "4", "4", "0", "7",
       "3", "7", "0", "9", "5", "5", "1", "6", "1", "6" >>

IntTexts == {<< "0" >>, << "1", "2" >>, TooBig}

Bodies == SeqsUpTo({"a", "\\", "\""}, MaxBody)

SegmentTexts ==
    {<< "." >>, << ".", "a" >>, << ".", "*" >>, << "*" >>, << "[", ":", "]" >>, << "[", "1" >>}
    \cup {<< "[" >> \o n \o << "]" >> : n \in IntTexts}
    \cup {<< "[" >> \o n \o << ":" >> \o m \o << "]" >> : n \in IntTexts, m \in IntTexts}
    \cup {<< "[", ":" >> \o n \o << "]" >> : n \in IntTexts}
    \cup {<< "[" >> \o n \o << ":", "]" >> : n \in IntTexts}
    \cup {<< "[", "\"" >> \o b \o << "\"", "]" >> : b \in Bodies}

Texts ==
    {<< >>} \cup SegmentTexts
    \cup {s \o t : s \in SegmentTexts, t \in SegmentTexts}
    \cup {s \o << "," >> \o t : s \in SegmentTexts, t \in SegmentTexts}

InitParse ==
    /\ text \in Texts
    /\ selectors = << >>
    /\ pairs = << >> /\ segments = << >> /\ rest = << >>
    /\ result = NoValue
    /\ pc = "parse"
    /\ RedactIdle

NextParse ==
    \/ parse_error
    \/ parse_pairs
    \/ for_selector
    \/ segment_continue
    \/ segment_push
    \/ segment_panic
    \/ push_segments
    \/ parse_ok

SpecParse == InitParse /\ [][NextParse]_vars

--------------------------------------------------------------------------
(* What the claims say about matching, stated without the loops of is_match *)

HasRange(sels) == \E a \in DOMAIN sels : \E j \in DOMAIN sels[a] : sels[a][j].seg = "Range"

Accepts(segment, element) ==
    \/ segment.seg = "Wildcard"
    \/ segment.seg = "Key" /\ as_str(element) = Some(segment.k)
    \/ segment.seg = "Index" /\ as_u64(element) = Some(segment.i)

AlternativeMatches(alt, p) ==
    /\ Len(alt) = Len(p)
    /\ \A j \in DOMAIN alt : Accepts(alt[j], p[j])

ReachesRange(sels, p) ==
    \E a \in DOMAIN sels :
        /\ Len(sels[a]) = Len(p)
        /\ \A b \in 1..(a - 1) : AlternativeMatches(sels[b], p)
        /\ \E j \in DOMAIN sels[a] :
              /\ sels[a][j].seg = "Range"
              /\ \A i \in 1..(j - 1) : Accepts(sels[a][i], p[i])

MatchReturned == pc \in {"returned", "panicked"}

\* C4: for a Selector without Range segments is_match(path) is true exactly when
\* every stored alternative matches that path (an intersection); so zero
\* alternatives match every path and two alternatives of different lengths match
\* no path.
C4_IsMatchIsIntersection ==
    (MatchReturned /\ ~HasRange(selectors)) =>
        /\ pc = "returned"
        /\ result \in {"true", "false"}
        /\ (result = "true") <=>
              (\A a \in DOMAIN selectors : AlternativeMatches(selectors[a], path))
        /\ (selectors = << >>) => (result = "true")
        /\ (Len(selectors) = 2 /\ Len(selectors[1]) # Len(selectors[2])) => (result = "false")

C4_Witness ==
    /\ pc = "returned" /\ ~HasRange(selectors)
    /\ Len(selectors) = 2 /\ selectors[1] # selectors[2]
    /\ Len(path) = 2
    /\ result = "true"

\* C5: a single alternative of Wildcard, Key and Index segments matches a path
\* exactly when the path has the pattern's length and every segment accepts the
\* path element at its position: Wildcard any element, Key(k) the elements whose
\* text view is k (case-sensitively), Index(i) the elements whose unsigned view is i.
C5_SingleAlternativeExactLength ==
    (MatchReturned /\ Len(selectors) = 1 /\ ~HasRange(selectors)) =>
        ((result = "true") <=>
            /\ Len(path) = Len(selectors[1])
            /\ \A j \in 1..Len(selectors[1]) :
                  LET segment == selectors[1][j]
                      element == path[j]
                  IN  \/ segment.seg = "Wildcard"
                      \/ segment.seg = "Key" /\ as_str(element) = Some(segment.k)
                      \/ segment.seg = "Index" /\ as_u64(element) = Some(segment.i))

C5_Witness ==
    /\ pc = "returned"
    /\ selectors = << << Key("a"), Index(0) >> >>
    /\ path = << Str("a"), U64(0) >>
    /\ result = "true"

\* C10: is_match aborts exactly when its evaluation reaches a Range segment: some
\* alternative has the path's length, every earlier alternative matched, every
\* earlier segment of that alternative accepted its element, and the segment at
\* the current position is a Range; otherwise it returns true or false.
C10_AbortsExactlyWhenRangeReached ==
    MatchReturned =>
        /\ (result = "panic") <=> ReachesRange(selectors, path)
        /\ (result = "panic") <=> (pc = "panicked")
        /\ result \in {"true", "false", "panic"}

C10_Witness ==
    /\ pc = "panicked"
    /\ Len(selectors) = 2 /\ ~HasRange(<< selectors[1] >>)
    /\ Len(selectors[1]) = 2 /\ Len(selectors[2]) = 2
    /\ selectors[2][1].seg = "Key" /\ selectors[2][2].seg = "Range"

--------------------------------------------------------------------------
(* What the claims say about redaction *)

\* the position of the node the running redact_impl call is about: the child
\* positions from the root
CurPos == [k \in 1..Len(stack) |-> stack[k].i]

RECURSIVE ValidPos(_, _)
ValidPos(v, pos) ==
    \/ pos = << >>
    \/ /\ IsContainer(v)
       /\ pos[1] \in 1..Len(children(v))
       /\ ValidPos(child(v, pos[1]), Tail(pos))

RECURSIVE NodeAt(_, _)
NodeAt(v, pos) == IF pos = << >> THEN v ELSE NodeAt(child(v, pos[1]), Tail(pos))

RECURSIVE NodeCount(_)
RECURSIVE SumCounts(_, _)
SumCounts(v, i) == IF i = 0 THEN 0 ELSE NodeCount(child(v, i)) + SumCounts(v, i - 1)
NodeCount(v) == IF IsContainer(v) THEN 1 + SumCounts(v, Len(children(v))) ELSE 1

IsPrefix(p, q) == Len(p) <= Len(q) /\ SubSeq(q, 1, Len(p)) = p

IndexAddressed == {"Seq", "Tuple", "TupleStruct", "TupleVariant"}
RecordKinds == {"Struct", "StructVariant"}

\* the reference transform of C1, top-down from a node with path p
RECURSIVE Transform(_, _)
Transform(v, p) ==
    IF is_match(selectors, p) = "true" THEN redaction
    ELSE CASE v.kind = "Map" ->
                [v EXCEPT !.entries =
                    [i \in DOMAIN v.entries |->
                        << v.entries[i][1],
                           Transform(v.entries[i][2], Append(p, v.entries[i][1])) >>]]
           [] v.kind \in RecordKinds ->
                [v EXCEPT !.fields =
                    [i \in DOMAIN v.fields |->
                        << v.fields[i][1],
                           Transform(v.fields[i][2], Append(p, Str(v.fields[i][1]))) >>]]
           [] v.kind \in IndexAddressed ->
                [v EXCEPT !.items =
                    [i \in DOMAIN v.items |-> Transform(v.items[i], Append(p, U64(i - 1)))]]
           [] OTHER -> v

\* C1: for a Selector without Range segments redact(value, redaction) equals the
\* reference transform from the empty path: the redaction where is_match holds,
\* otherwise a container of the same kind over the transformed children, each at
\* the path extended by its key or index, otherwise the node itself.
C1_RedactEqualsReferenceTransform ==
    (pc = "done" /\ ~HasRange(selectors)) => result = Transform(value, << >>)

C1_Witness ==
    /\ pc = "done" /\ ~HasRange(selectors)
    /\ value.kind = "Tuple" /\ Len(value.items) = 2
    /\ result.kind = "Tuple"
    /\ result.items[1] = value.items[1]
    /\ value.items[2].kind = "Map" /\ result.items[2].kind = "Map"
    /\ result.items[2].entries[1][2] = redaction

\* C2: redact never redacts inside an inserted replacement: a matched node gets
\* the redaction value verbatim, is_match is consulted only for nodes of the input,
\* at most once per node, and never for a path extending a matched one; and the
\* traversal cannot get stuck before it has returned or aborted.
C2_NeverRedactsInsideReplacement ==
    /\ \A i \in DOMAIN calls :
          /\ ValidPos(value, calls[i].pos)
          /\ \A j \in DOMAIN calls :
                i # j =>
                    /\ calls[i].pos # calls[j].pos
                    /\ calls[i].outcome = "true" => ~IsPrefix(calls[i].path, calls[j].path)
    /\ Len(calls) <= NodeCount(value)
    /\ (pc = "return" /\ Last(calls).outcome = "true" /\ Last(calls).pos = CurPos)
          => ret = redaction
    /\ pc \in {"redact", "call", "iter", "return"} => ENABLED NextRedact

C2_Witness ==
    /\ pc = "done"
    /\ IsContainer(redaction)
    /\ is_match(selectors, << pushed_element(redaction, 1) >>) = "true"
    /\ IsContainer(value)
    /\ result = redaction
    /\ Len(calls) = 1

RECURSIVE Framed(_, _, _)
Framed(in, out, p) ==
    \/ is_match(selectors, p) = "true"
    \/ /\ out.kind = in.kind
       /\ IF ~IsContainer(in) THEN out = in
          ELSE /\ in.kind \in {"TupleStruct", "Struct", "TupleVariant", "StructVariant"}
                    => out.name = in.name
               /\ in.kind \in {"TupleVariant", "StructVariant"}
                    => out.variant_index = in.variant_index /\ out.variant = in.variant
               /\ Len(children(out)) = Len(children(in))
               /\ \A i \in 1..Len(children(in)) :
                    /\ in.kind \in {"Map"} \cup RecordKinds
                          => children(out)[i][1] = children(in)[i][1]
                    /\ Framed(child(in, i), child(out, i), Append(p, pushed_element(in, i)))

RECURSIVE NoMatchBelow(_, _)
NoMatchBelow(v, p) ==
    /\ is_match(selectors, p) = "false"
    /\ IsContainer(v) =>
          \A i \in 1..Len(children(v)) :
              NoMatchBelow(child(v, i), Append(p, pushed_element(v, i)))

\* C3: redact leaves everything that is not matched unchanged: a node whose own
\* path and whose ancestors' paths do not match keeps its kind, its name and
\* variant tags, its number of children, their keys and their order, and a scalar
\* leaf is identical; when no path of the tree matches the output is the input.
C3_UnmatchedUnchanged ==
    pc = "done" =>
        /\ Framed(value, result, << >>)
        /\ NoMatchBelow(value, << >>) => result = value

C3_Witness ==
    /\ pc = "done"
    /\ value.kind = "StructVariant" /\ Len(value.fields) = 2
    /\ result.kind = "StructVariant"
    /\ result.fields[1][2] = redaction
    /\ result.fields[2] = value.fields[2]
    /\ value.fields[2][2].kind = "Tuple"

RECURSIVE ClaimPath(_, _)
ClaimPath(v, pos) ==
    IF pos = << >> THEN << >>
    ELSE << CASE v.kind \in IndexAddressed -> U64(pos[1] - 1)
              [] v.kind \in RecordKinds -> Str(v.fields[pos[1]][1])
              [] v.kind = "Map" -> v.entries[pos[1]][1] >>
            \o ClaimPath(child(v, pos[1]), Tail(pos))

PathNamesNode ==
    /\ ValidPos(value, IF pc = "iter" THEN Front(CurPos) ELSE CurPos)
    /\ \A i \in DOMAIN calls : calls[i].path = ClaimPath(value, calls[i].pos)
    /\ pc \in {"redact", "done"} => path = << >> /\ stack = << >>
    /\ pc \in {"call", "panicked"} =>
          /\ path = ClaimPath(value, CurPos)
          /\ cur = NodeAt(value, CurPos)
    /\ pc = "return" => path = ClaimPath(value, CurPos)
    /\ pc = "iter" => path = ClaimPath(value, Front(CurPos))

\* the type of each element on the path, by the kind of the container it was
\* pushed for
PushedTypes(mapKeysAreText) ==
    \A k \in DOMAIN path :
        /\ k \in DOMAIN stack
        /\ LET node == stack[k].node
           IN  /\ node.kind \in IndexAddressed => as_u64(path[k]) = Some(stack[k].i - 1)
               /\ node.kind \in RecordKinds => as_str(path[k]) # None
               /\ node.kind = "Map" =>
                     IF mapKeysAreText THEN as_str(path[k]) # None
                     ELSE (as_str(path[k]) # None) <=> (node.entries[stack[k].i][1].kind = "String")

\* C9 as stated: the path stack always names the node being examined, and the
\* element pushed for a child of a map, record or record variant is text-typed,
\* for a child of an index-addressed container unsigned-integer-typed.
C9_KeyAddressedPushText == PathNamesNode /\ PushedTypes(TRUE)

\* C9 as amended: the path stack always names the node being examined: empty at
\* the root, at every is_match call the keys/indices from the root to the node,
\* the same on return from a subtree as on entry; the pushed element is the
\* zero-based position (unsigned) for the index-addressed containers, the field
\* name as text for a record or record variant, and for a map the key itself,
\* which is text-typed only when the key is.
C9_PathNamesNode == PathNamesNode /\ PushedTypes(FALSE)

C9_Witness ==
    /\ pc = "call"
    /\ value.kind = "Map"
    /\ path = << U64(0), U64(0) >>
    /\ cur = Str("x")
    /\ Len(calls) >= 3

--------------------------------------------------------------------------
(* What the claims say about parsing *)

IsSegmentPair(pair) == pair.rule # "identity"

\* the segment pairs of the a-th selector of the text, identity markers left out
WrittenSegments(a) == SelectSeq(pest_parse(text).sels[a], IsSegmentPair)

\* the integer a run of digits writes, when an unsigned 64-bit value can hold it
Written(ds) == Some(DecimalValue(ds))

\* the segment the claim asks for, for a subscript or range pair
IntegerSegmentAsWritten(pair, segment) ==
    LET inner == pair.inner
    IN  CASE pair.rule = "subscript" /\ inner[1].rule = "int" ->
                FitsU64(inner[1].str) /\ segment = Index(DecimalValue(inner[1].str))
          [] pair.rule = "full_range" -> segment = Range(None, None)
          [] pair.rule = "range" ->
                /\ FitsU64(inner[1].str) /\ FitsU64(inner[2].str)
                /\ segment = Range(Written(inner[1].str), Written(inner[2].str))
          [] pair.rule = "range_to" ->
                FitsU64(inner[1].str) /\ segment = Range(None, Written(inner[1].str))
          [] pair.rule = "range_from" ->
                FitsU64(inner[1].str) /\ segment = Range(Written(inner[1].str), None)
          [] OTHER -> TRUE

\* C7: Selector::parse never aborts and never returns a best-effort selector: it
\* returns a SelectorParseError, or a Selector in which every integer subscript
\* is an Index holding the integer written and every range form a Range whose
\* bound is None exactly when the text omits it and else holds the integer
\* written; also for integers that do not fit an unsigned 64-bit value.
C7_ParseNeverAbortsNorGuesses ==
    /\ pc # "panicked"
    /\ pc = "parsed" =>
          \A a \in DOMAIN result.selectors :
              \A j \in DOMAIN result.selectors[a] :
                  IntegerSegmentAsWritten(WrittenSegments(a)[j], result.selectors[a][j])

\* the decoding C8 describes: backslash+quote becomes a quote, all else is kept
RECURSIVE DecodeEscapedQuotes(_)
DecodeEscapedQuotes(s) ==
    IF s = << >> THEN << >>
    ELSE IF Head(s) = "\\" /\ At(s, 2) = "\""
    THEN << "\"" >> \o DecodeEscapedQuotes(Tail(Tail(s)))
    ELSE << Head(s) >> \o DecodeEscapedQuotes(Tail(s))

\* C8: decoding the body of a quoted-string key changes only backslash+quote,
\* which becomes a quote; every other character of the body, also a backslash
\* followed by something other than a quote, is kept, in order.
C8_OnlyEscapedQuoteDecoded ==
    pc = "parsed" =>
        \A a \in DOMAIN result.selectors :
            \A j \in DOMAIN result.selectors[a] :
                LET pair == WrittenSegments(a)[j]
                    sq == pair.inner[1].str
                IN  (pair.rule = "subscript" /\ pair.inner[1].rule = "string") =>
                        result.selectors[a][j] =
                            Key(Join(DecodeEscapedQuotes(SubSeq(sq, 2, Len(sq) - 1))))

==========================================================================
